---- MODULE Spec2Model ----
(***************************************************************************)
(* A model of core/metrics.py: input validation, the pointwise metrics,    *)
(* the impurity metrics, the split-quality functions, metric resolution    *)
(* and the MetricList aggregator.                                          *)
(*                                                                         *)
(* Scalars are binary floating-point numbers: every arithmetic operation   *)
(* is the exact rational result rounded to nearest-even on MantBits        *)
(* significant bits (the code's float64 carries 53), with the IEEE         *)
(* special values NaN, +Inf and -Inf.  Exponents are unbounded.            *)
(***************************************************************************)
EXTENDS Integers, Sequences, FiniteSets, TLC

\* ------------------------------------------------------------------ bounds
MantBits == 3      \* significant bits of a float of the model
MaxN == 3          \* longest y_true / y_pred vector of a pointwise call
MaxLen == 2        \* longest label vector of an impurity or split call
MaxChildren == 2   \* most child vectors of a split
MaxSplit == 2      \* most labels in the child vectors of a split together
MaxMetrics == 2    \* most identifiers a MetricList is constructed from
MaxCalls == 2      \* most evaluate calls of a run

\* ------------------------------------------------------- integer helpers
Abs(i) == IF i < 0 THEN -i ELSE i

RECURSIVE Gcd(_, _)
Gcd(a, b) == IF b = 0 THEN a ELSE Gcd(b, a % b)

RECURSIVE Pow2(_)
Pow2(k) == IF k = 0 THEN 1 ELSE 2 * Pow2(k - 1)

\* ------------------------------------------------------------ float values
Fin(n, d) == [k |-> "fin", n |-> n, d |-> d]
NaN == [k |-> "nan", n |-> 0, d |-> 1]
PInf == [k |-> "inf", n |-> 1, d |-> 1]
NInf == [k |-> "inf", n |-> -1, d |-> 1]
Zero == Fin(0, 1)
One == Fin(1, 1)

\* the rational n/d in lowest terms with a positive denominator
Norm(n, d) ==
    LET g == Gcd(Abs(n), Abs(d))
        s == IF d < 0 THEN -1 ELSE 1
    IN  Fin(s * (n \div g), s * (d \div g))

\* a/d scaled by 2^e into [2^(MantBits-1), 2^MantBits), then rounded half-even
RECURSIVE RoundMag(_, _, _)
RoundMag(a, d, e) ==
    IF a >= Pow2(MantBits) * d THEN RoundMag(a, 2 * d, e + 1)
    ELSE IF a < Pow2(MantBits - 1) * d THEN RoundMag(2 * a, d, e - 1)
    ELSE LET m == a \div d
             r == a % d
             up == (2 * r > d) \/ (2 * r = d /\ m % 2 = 1)
             mm == IF up THEN m + 1 ELSE m
         IN  IF e >= 0 THEN Norm(mm * Pow2(e), 1) ELSE Norm(mm, Pow2(-e))

\* the float nearest to the rational n/d (d # 0)
Round(n, d) ==
    IF n = 0 THEN Zero
    ELSE LET q == Norm(n, d)
             v == RoundMag(Abs(q.n), q.d, 0)
         IN  IF q.n < 0 THEN Fin(-v.n, v.d) ELSE v

FromInt(i) == Round(i, 1)

IsFin(a) == a.k = "fin"
IsNaN(a) == a.k = "nan"
Sign(a) == IF a.n > 0 THEN 1 ELSE IF a.n < 0 THEN -1 ELSE 0

FNeg(a) == IF IsNaN(a) THEN NaN ELSE [a EXCEPT !.n = -a.n]

FAdd(a, b) ==
    IF IsNaN(a) \/ IsNaN(b) THEN NaN
    ELSE IF IsFin(a) /\ IsFin(b) THEN Round(a.n * b.d + b.n * a.d, a.d * b.d)
    ELSE IF IsFin(a) THEN b
    ELSE IF IsFin(b) THEN a
    ELSE IF a = b THEN a ELSE NaN

FSub(a, b) == FAdd(a, FNeg(b))

FMul(a, b) ==
    IF IsNaN(a) \/ IsNaN(b) THEN NaN
    ELSE IF IsFin(a) /\ IsFin(b) THEN Round(a.n * b.n, a.d * b.d)
    ELSE IF Sign(a) * Sign(b) = 0 THEN NaN
    ELSE IF Sign(a) * Sign(b) > 0 THEN PInf ELSE NInf

\* numpy true division: a zero divisor gives an infinity or NaN, never an error
FDiv(a, b) ==
    IF IsNaN(a) \/ IsNaN(b) THEN NaN
    ELSE IF IsFin(a) /\ IsFin(b) THEN
        IF b.n = 0
        THEN (IF a.n = 0 THEN NaN ELSE IF a.n > 0 THEN PInf ELSE NInf)
        ELSE Round(a.n * b.d, a.d * b.n)
    ELSE IF IsFin(a) THEN Zero
    ELSE IF IsFin(b) THEN (IF Sign(a) * (IF b.n < 0 THEN -1 ELSE 1) > 0 THEN PInf ELSE NInf)
    ELSE NaN

FAbs(a) == IF IsNaN(a) THEN NaN ELSE [a EXCEPT !.n = Abs(a.n)]

\* a == b on floats: NaN equals nothing
FEq(a, b) == ~IsNaN(a) /\ ~IsNaN(b) /\ a = b

\* a < b on floats
FLt(a, b) ==
    IF IsNaN(a) \/ IsNaN(b) THEN FALSE
    ELSE IF IsFin(a) /\ IsFin(b) THEN a.n * b.d < b.n * a.d
    ELSE IF IsFin(a) THEN b.n > 0
    ELSE IF IsFin(b) THEN a.n < 0
    ELSE a.n < b.n

\* floor(log2(i)) and the exponent of the largest power of two dividing i (i >= 1)
RECURSIVE FloorLog2(_)
FloorLog2(i) == IF i < 2 THEN 0 ELSE 1 + FloorLog2(i \div 2)

RECURSIVE TwoAdic(_)
TwoAdic(i) == IF i % 2 = 1 THEN 0 ELSE 1 + TwoAdic(i \div 2)

\* np.log2 of a float: -Inf at 0, NaN below 0, exact at the powers of two and
\* otherwise the logarithm cut to quarters, rounded to a float
FLog2(a) ==
    IF IsNaN(a) THEN NaN
    ELSE IF ~IsFin(a) THEN (IF a.n > 0 THEN PInf ELSE NaN)
    ELSE IF a.n < 0 THEN NaN
    ELSE IF a.n = 0 THEN NInf
    ELSE LET t == TwoAdic(a.n)
             m == a.n \div Pow2(t)
             quarters == FloorLog2(m * m * m * m)
         IN  Round(4 * (t - FloorLog2(a.d)) + quarters, 4)

\* ------------------------------------------------------ sequence helpers
RECURSIVE SeqsUpTo(_, _)
SeqsUpTo(S, n) ==
    IF n = 0 THEN {<<>>}
    ELSE LET shorter == SeqsUpTo(S, n - 1)
         IN  shorter \cup {Append(s, x) : s \in {t \in shorter : Len(t) = n - 1}, x \in S}

\* np.sum of a float array shorter than 8: a left-to-right accumulation
RECURSIVE SumFrom(_, _, _)
SumFrom(acc, s, i) == IF i > Len(s) THEN acc ELSE SumFrom(FAdd(acc, s[i]), s, i + 1)

NpSum(s) == IF Len(s) = 0 THEN Zero ELSE SumFrom(s[1], s, 2)

\* np.mean: the sum divided by the element count
NpMean(s) == FDiv(NpSum(s), FromInt(Len(s)))

\* ------------------------------------------------------- python values
\* The result of a call: the exception it raised (NoExc when it returned), the
\* value it returned and the calls it made on the way.
NoExc == [cls |-> "", msg |-> ""]
Exc(cls, msg) == [cls |-> cls, msg |-> msg]
NoneVal == [k |-> "none", n |-> 0, d |-> 1]
Returned(v, trace) == [exc |-> NoExc, val |-> v, trace |-> trace]
Raised(e, trace) == [exc |-> e, val |-> NoneVal, trace |-> trace]
IsRaise(r) == r.exc # NoExc

\* y_true / y_pred arguments: a one-dimensional float64 ndarray or a plain list
NdArray(data) == [type |-> "ndarray", data |-> data]
PyList(data) == [type |-> "list", data |-> data]
IsNdArray(x) == x.type = "ndarray"
Shape(x) == <<Len(x.data)>>

\* ------------------------------------------------------------ validation
_validate_inputs(y_true, y_pred) ==
    IF ~IsNdArray(y_true) \/ ~IsNdArray(y_pred)
    THEN Exc("TypeError", "Inputs must be numpy arrays")
    ELSE IF Shape(y_true) # Shape(y_pred)
    THEN Exc("ValueError", "Shape mismatch")
    ELSE IF Len(y_true.data) = 0
    THEN Exc("ValueError", "Empty arrays are not supported")
    ELSE NoExc

\* ------------------------------------------------------- pointwise metrics
\* A Metric object: its class, its name and, for a MetricWrapper, the body of
\* the wrapped function.
MetricObj(cls, name, body) == [type |-> "Metric", cls |-> cls, name |-> name, body |-> body]
Accuracy == MetricObj("Accuracy", "accuracy", "")
MSE == MetricObj("MSE", "mse", "")
MAE == MetricObj("MAE", "mae", "")
R2Score == MetricObj("R2Score", "r2", "")

Diffs(y_true, y_pred) ==
    [i \in DOMAIN y_true.data |-> FSub(y_true.data[i], y_pred.data[i])]

Square(x) == FMul(x, x)

Squares(s) == [i \in DOMAIN s |-> Square(s[i])]

AccuracyCall(y_true, y_pred) ==
    LET e == _validate_inputs(y_true, y_pred)
        hits == Cardinality({i \in DOMAIN y_true.data :
                                FEq(y_true.data[i], y_pred.data[i])})
    IN  IF e # NoExc THEN Raised(e, <<"validate">>)
        ELSE Returned(FDiv(FromInt(hits), FromInt(Len(y_true.data))),
                      <<"validate", "compute">>)

MSECall(y_true, y_pred) ==
    LET e == _validate_inputs(y_true, y_pred)
    IN  IF e # NoExc THEN Raised(e, <<"validate">>)
        ELSE Returned(NpMean(Squares(Diffs(y_true, y_pred))),
                      <<"validate", "compute">>)

MAECall(y_true, y_pred) ==
    LET e == _validate_inputs(y_true, y_pred)
        d == Diffs(y_true, y_pred)
    IN  IF e # NoExc THEN Raised(e, <<"validate">>)
        ELSE Returned(NpMean([i \in DOMAIN d |-> FAbs(d[i])]),
                      <<"validate", "compute">>)

\* the value R2Score computes once validation has passed
R2Value(y_true, y_pred) ==
    LET ss_res == NpSum(Squares(Diffs(y_true, y_pred)))
        mean == NpMean(y_true.data)
        ss_tot == NpSum(Squares([i \in DOMAIN y_true.data |->
                                    FSub(y_true.data[i], mean)]))
    IN  IF FEq(ss_tot, Zero) THEN Zero
        ELSE FSub(One, FDiv(ss_res, ss_tot))

R2ScoreCall(y_true, y_pred) ==
    LET e == _validate_inputs(y_true, y_pred)
    IN  IF e # NoExc THEN Raised(e, <<"validate">>)
        ELSE Returned(R2Value(y_true, y_pred), <<"validate", "compute">>)

\* a user function wrapped by MetricWrapper: one that raises, one that returns
UserFn(body, y_true, y_pred) ==
    IF body = "raise" THEN Raised(Exc("RuntimeError", "user function failed"), <<"fn">>)
    ELSE Returned(Fin(1, 2), <<"fn">>)

MetricWrapperCall(m, y_true, y_pred) ==
    LET e == _validate_inputs(y_true, y_pred)
    IN  IF e # NoExc THEN Raised(e, <<"validate">>)
        ELSE LET r == UserFn(m.body, y_true, y_pred)
             IN  [r EXCEPT !.trace = <<"validate">> \o r.trace]

\* Metric.__call__ of the base class
BaseMetricCall(y_true, y_pred) ==
    LET e == _validate_inputs(y_true, y_pred)
    IN  IF e # NoExc THEN Raised(e, <<"validate">>)
        ELSE Raised(Exc("NotImplementedError", ""), <<"validate">>)

\* ------------------------------------------------------- impurity metrics
Entropy == MetricObj("Entropy", "entropy", "")
GiniImpurity == MetricObj("GiniImpurity", "gini", "")
MisclassificationError == MetricObj("MisclassificationError", "misclassification", "")

\* np.unique: the distinct values of y in increasing order
RECURSIVE SortedSeq(_)
SortedSeq(S) ==
    IF S = {} THEN <<>>
    ELSE LET lo == CHOOSE x \in S : \A z \in S : x <= z
         IN  <<lo>> \o SortedSeq(S \ {lo})

Classes(y) == SortedSeq({y[i] : i \in DOMAIN y})

Count(y, c) == Cardinality({i \in DOMAIN y : y[i] = c})

\* ImpurityMetric.compute_proportions
compute_proportions(y) ==
    IF Len(y) = 0 THEN <<>>
    ELSE LET classes == Classes(y)
         IN  [j \in DOMAIN classes |->
                 FDiv(FromInt(Count(y, classes[j])), FromInt(Len(y)))]

\* np.max of a non-empty float array
RECURSIVE MaxFrom(_, _, _)
MaxFrom(acc, s, i) ==
    IF i > Len(s) THEN acc
    ELSE MaxFrom(IF FLt(acc, s[i]) THEN s[i] ELSE acc, s, i + 1)

NpMax(s) == MaxFrom(s[1], s, 2)

\* proportions[proportions > 0]
RECURSIVE Positive(_)
Positive(s) ==
    IF Len(s) = 0 THEN <<>>
    ELSE (IF FLt(Zero, Head(s)) THEN <<Head(s)>> ELSE <<>>) \o Positive(Tail(s))

EntropyValue(y) ==
    LET proportions == compute_proportions(y)
        nonzero_props == Positive(proportions)
    IN  FNeg(NpSum([i \in DOMAIN nonzero_props |->
                       FMul(nonzero_props[i], FLog2(nonzero_props[i]))]))

GiniValue(y) ==
    LET proportions == compute_proportions(y)
    IN  FSub(One, NpSum(Squares(proportions)))

MisclassificationValue(y) ==
    LET proportions == compute_proportions(y)
    IN  IF Len(proportions) > 0 THEN FSub(One, NpMax(proportions)) ELSE Zero

\* impurity_metric(y)
Impurity(m, y) ==
    CASE m.cls = "Entropy" -> EntropyValue(y)
      [] m.cls = "GiniImpurity" -> GiniValue(y)
      [] OTHER -> MisclassificationValue(y)

\* metric(y_true, y_pred) of a pointwise metric, dispatched on its class
CallMetric(m, y_true, y_pred) ==
    CASE m.cls = "Accuracy" -> AccuracyCall(y_true, y_pred)
      [] m.cls = "MSE" -> MSECall(y_true, y_pred)
      [] m.cls = "MAE" -> MAECall(y_true, y_pred)
      [] m.cls = "R2Score" -> R2ScoreCall(y_true, y_pred)
      [] m.cls = "MetricWrapper" -> MetricWrapperCall(m, y_true, y_pred)
      [] OTHER -> BaseMetricCall(y_true, y_pred)

\* --------------------------------------------------- split-quality functions
\* sum(len(child) / n_parent * impurity_metric(child) for child in y_children)
RECURSIVE WeightedChildImpurity(_, _, _, _)
WeightedChildImpurity(acc, n_parent, y_children, m) ==
    IF Len(y_children) = 0 THEN acc
    ELSE LET child == Head(y_children)
             term == FMul(FDiv(FromInt(Len(child)), FromInt(n_parent)),
                          Impurity(m, child))
         IN  WeightedChildImpurity(FAdd(acc, term), n_parent, Tail(y_children), m)

\* the child impurities summed without their len(child) / n_parent weights
RECURSIVE UnweightedChildImpurity(_, _, _)
UnweightedChildImpurity(acc, y_children, m) ==
    IF Len(y_children) = 0 THEN acc
    ELSE UnweightedChildImpurity(FAdd(acc, Impurity(m, Head(y_children))),
                                 Tail(y_children), m)

information_gain_unweighted(y_parent, y_children, m) ==
    IF Len(y_parent) = 0 /\ Len(y_children) > 0
    THEN Raised(Exc("ZeroDivisionError", "division by zero"), <<>>)
    ELSE Returned(FSub(Impurity(m, y_parent),
                       UnweightedChildImpurity(Zero, y_children, m)), <<>>)

information_gain(y_parent, y_children, m) ==
    LET parent_impurity == Impurity(m, y_parent)
        n_parent == Len(y_parent)
    IN  IF n_parent = 0 /\ Len(y_children) > 0
        THEN Raised(Exc("ZeroDivisionError", "division by zero"), <<>>)
        ELSE Returned(FSub(parent_impurity,
                           WeightedChildImpurity(Zero, n_parent, y_children, m)), <<>>)

\* sum((len(child) / n_parent) * np.log2(len(child) / n_parent) for child in y_children)
RECURSIVE SplitSum(_, _, _)
SplitSum(acc, n_parent, y_children) ==
    IF Len(y_children) = 0 THEN acc
    ELSE LET w == FDiv(FromInt(Len(Head(y_children))), FromInt(n_parent))
         IN  SplitSum(FAdd(acc, FMul(w, FLog2(w))), n_parent, Tail(y_children))

gain_ratio(y_parent, y_children, m) ==
    LET ig == information_gain(y_parent, y_children, m)
        n_parent == Len(y_parent)
        split_info == FNeg(SplitSum(Zero, n_parent, y_children))
    IN  IF IsRaise(ig) THEN ig
        ELSE IF ~FEq(split_info, Zero)
             THEN Returned(FDiv(ig.val, split_info), <<>>)
             ELSE Returned(Zero, <<>>)

\* -------------------------------------------------------- metric resolution
\* Identifiers handed to get_metric: a string, a Metric object, a function, a
\* callable object without a __name__ (functools.partial), anything else.
PyStr(s) == [type |-> "str", cls |-> "", name |-> s, body |-> ""]
PyFunction(name, body) == [type |-> "function", cls |-> "", name |-> name, body |-> body]
PyPartial(body) == [type |-> "partial", cls |-> "", name |-> "", body |-> body]
PyInt == [type |-> "int", cls |-> "", name |-> "42", body |-> ""]

\* the result of get_metric: the Metric object returned or the exception raised
NoMetric == MetricObj("", "", "")
Resolved(m) == [exc |-> NoExc, val |-> m]
Unresolved(e) == [exc |-> e, val |-> NoMetric]

IsCallable(x) == x.type \in {"Metric", "function", "partial"}

\* MetricWrapper.__init__: fn.__name__ is read, and a partial has none
MetricWrapperInit(fn) ==
    IF fn.type = "function"
    THEN Resolved(MetricObj("MetricWrapper", fn.name, fn.body))
    ELSE Unresolved(Exc("AttributeError", "object has no attribute '__name__'"))

metrics_map(s) ==
    CASE s = "accuracy" -> Accuracy
      [] s = "mse" -> MSE
      [] s = "mae" -> MAE
      [] s = "r2" -> R2Score

get_metric(metric) ==
    IF metric.type = "Metric" THEN Resolved(metric)
    ELSE IF metric.type = "str" THEN
        IF metric.name \notin {"accuracy", "mse", "mae", "r2"}
        THEN Unresolved(Exc("ValueError", "Unknown metric"))
        ELSE Resolved(metrics_map(metric.name))
    ELSE IF IsCallable(metric) THEN MetricWrapperInit(metric)
    ELSE Unresolved(Exc("ValueError", "metric must be string, Metric instance or callable"))

\* ------------------------------------------------------------ MetricList
Instances == {1, 2}

Names(ms) == {ms[i].name : i \in DOMAIN ms}

\* a history kept on the class: every instance that knows the name sees the score
AppendScoreShared(h, a, name, score) ==
    [b \in DOMAIN h |-> IF name \in DOMAIN h[b]
                        THEN [h[b] EXCEPT ![name] = Append(@, score)]
                        ELSE h[b]]

\* self.history[metric.name].append(score), on the history of instance a alone
AppendScore(h, a, name, score) == [h EXCEPT ![a][name] = Append(@, score)]

\* results[metric.name] = value
SetResult(res, name, value) == (name :> value) @@ res

\* ------------------------------------------------------------------ inputs
Values == {FromInt(0), FromInt(1), FromInt(6), PInf}
Vectors == SeqsUpTo(Values, MaxN)
Arguments == {NdArray(v) : v \in Vectors} \cup {PyList(<<FromInt(1)>>)}

Labels == {0, 1}
LabelVectors == SeqsUpTo(Labels, MaxLen)

RECURSIVE TotalLen(_)
TotalLen(cs) == IF Len(cs) = 0 THEN 0 ELSE Len(Head(cs)) + TotalLen(Tail(cs))

ChildLists == {cs \in SeqsUpTo(LabelVectors, MaxChildren) : TotalLen(cs) <= MaxSplit}
ImpurityMetrics == {Entropy, GiniImpurity, MisclassificationError}

PointwiseMetrics ==
    {Accuracy, MSE, MAE, R2Score,
     MetricObj("MetricWrapper", "my_metric", "half"),
     MetricObj("MetricWrapper", "broken_metric", "raise"),
     MetricObj("Metric", "base", "")}

FunctionNames == {"my_metric", "broken_metric", "accuracy", "mse", "score"}

Identifiers ==
    {PyStr(n) : n \in {"accuracy", "mse", "mae", "r2", "unknown_metric", "Accuracy", ""}}
        \cup {PyFunction(n, b) : n \in FunctionNames, b \in {"half", "raise"}}
        \cup {PyPartial("half"), PyPartial("raise"), PyInt}
        \cup {MetricObj(c, n, "") : c \in {"Accuracy", "MSE", "MAE", "R2Score", "Metric"},
                                    n \in {"accuracy", "mse", "mae", "r2", "custom"}}
        \cup {MetricObj("MetricWrapper", n, b) : n \in FunctionNames, b \in {"half", "raise"}}
        \cup ImpurityMetrics

\* the (y_true, y_pred) pairs handed to evaluate
ValidA == <<NdArray(<<FromInt(1), FromInt(6)>>), NdArray(<<FromInt(1), FromInt(6)>>)>>
ValidB == <<NdArray(<<FromInt(1), FromInt(6)>>), NdArray(<<FromInt(1), FromInt(1)>>)>>
ShapeBad == <<NdArray(<<FromInt(1), FromInt(6)>>), NdArray(<<FromInt(1)>>)>>
ListInputs == {ValidA, ValidB, ShapeBad}
PairInputs == {ValidA, ValidB}

\* the identifiers a MetricList is built from: by name, by function (one
\* function named like a built-in metric), by Metric object
ListIdentifiers ==
    {PyStr("accuracy"), PyStr("mse"),
     PyFunction("broken_metric", "raise"), PyFunction("accuracy", "raise"),
     PyFunction("mse", "half")}
SharedMetric == MSE
PairIdentifiers == {PyStr("accuracy"), SharedMetric}
ListIdentifierLists == SeqsUpTo(ListIdentifiers, MaxMetrics)
PairIdentifierLists == SeqsUpTo(PairIdentifiers, MaxMetrics)

\* ------------------------------------------------------------------- state
VARIABLES
    built,      \* built[a]: MetricList a has been constructed
    metrics,    \* metrics[a]: self.metrics
    history,    \* history[a]: self.history, name -> scores
    results,    \* results[a]: the results dict of the running or last call
    pc,         \* pc[a]: 0 outside __call__, else the index of the next metric
    cur,        \* cur[a]: the (y_true, y_pred) of the running or last call
    calls,      \* calls[a]: the inputs of the calls made so far
    before,     \* before[a]: self.history as the running or last call found it
    returned,   \* returned[a]: the dicts the finished calls returned
    attempted,  \* attempted[a]: the metrics the running or last call evaluated
    call        \* a call of one of the module's functions: its arguments and,
                \* once it has run, its result

aggVars == <<built, metrics, history, results, pc, cur, calls, before, returned, attempted>>
vars == <<aggVars, call>>

NoCall == [fn |-> "none", done |-> TRUE]

InitLists ==
    /\ built = [a \in Instances |-> FALSE]
    /\ metrics = [a \in Instances |-> <<>>]
    /\ history = [a \in Instances |-> <<>>]
    /\ results = [a \in Instances |-> <<>>]
    /\ pc = [a \in Instances |-> 0]
    /\ cur = [a \in Instances |-> ValidA]
    /\ calls = [a \in Instances |-> <<>>]
    /\ before = [a \in Instances |-> <<>>]
    /\ returned = [a \in Instances |-> <<>>]
    /\ attempted = [a \in Instances |-> <<>>]

Init == InitLists /\ call = NoCall

\* MetricList.__init__: every identifier resolves, or the constructor raises
\* and no instance exists
Construct(a, ids) ==
    /\ ~built[a]
    /\ \A i \in DOMAIN ids : get_metric(ids[i]).exc = NoExc
    /\ LET ms == [i \in DOMAIN ids |-> get_metric(ids[i]).val]
       IN  /\ metrics' = [metrics EXCEPT ![a] = ms]
           /\ history' = [history EXCEPT ![a] = [n \in Names(ms) |-> <<>>]]
    /\ built' = [built EXCEPT ![a] = TRUE]
    /\ UNCHANGED <<results, pc, cur, calls, before, returned, attempted, call>>

\* MetricList.__call__ up to the loop: results = {}
BeginEvaluate(a, input) ==
    /\ built[a]
    /\ pc[a] = 0
    /\ Len(calls[1]) + Len(calls[2]) < MaxCalls
    /\ results' = [results EXCEPT ![a] = <<>>]
    /\ cur' = [cur EXCEPT ![a] = input]
    /\ calls' = [calls EXCEPT ![a] = Append(@, input)]
    /\ before' = [before EXCEPT ![a] = history[a]]
    /\ attempted' = [attempted EXCEPT ![a] = <<>>]
    /\ IF Len(metrics[a]) = 0
       THEN /\ pc' = pc
            /\ returned' = [returned EXCEPT ![a] = Append(@, <<>>)]
       ELSE /\ pc' = [pc EXCEPT ![a] = 1]
            /\ returned' = returned
    /\ UNCHANGED <<built, metrics, history, call>>

\* one turn of the loop of MetricList.__call__, and the return after the last
Attempt(a) ==
    /\ pc[a] > 0
    /\ \E r \in {CallMetric(metrics[a][pc[a]], cur[a][1], cur[a][2])} :
       \E res \in {SetResult(results[a], metrics[a][pc[a]].name, r.val)} :
          /\ history' = IF IsRaise(r) THEN history
                        ELSE AppendScore(history, a, metrics[a][pc[a]].name, r.val)
          /\ results' = [results EXCEPT ![a] = res]
          /\ returned' = IF pc[a] = Len(metrics[a])
                         THEN [returned EXCEPT ![a] = Append(@, res)]
                         ELSE returned
    /\ attempted' = [attempted EXCEPT ![a] = Append(@, pc[a])]
    /\ pc' = [pc EXCEPT ![a] = IF pc[a] = Len(metrics[a]) THEN 0 ELSE pc[a] + 1]
    /\ UNCHANGED <<built, metrics, cur, calls, before, call>>

\* A function call about to be made; res is filled in when it runs.
Pending(fn, m, a1, a2) ==
    [fn |-> fn, done |-> FALSE, m |-> m, a1 |-> a1, a2 |-> a2, res |-> Raised(NoExc, <<>>)]

\* get_metric(ident)
Resolve ==
    /\ call.fn = "get_metric" /\ ~call.done
    /\ call' = [call EXCEPT !.done = TRUE, !.res = get_metric(call.m)]
    /\ UNCHANGED aggVars

\* metric(y_true, y_pred) of a pointwise metric
Score ==
    /\ call.fn = "metric" /\ ~call.done
    /\ call' = [call EXCEPT !.done = TRUE, !.res = CallMetric(call.m, call.a1, call.a2)]
    /\ UNCHANGED aggVars

\* impurity_metric(y)
Measure ==
    /\ call.fn = "impurity" /\ ~call.done
    /\ call' = [call EXCEPT !.done = TRUE, !.res = Returned(Impurity(call.m, call.a1), <<>>)]
    /\ UNCHANGED aggVars

\* information_gain(y_parent, y_children, impurity_metric)
InformationGain ==
    /\ call.fn = "information_gain" /\ ~call.done
    /\ call' = [call EXCEPT !.done = TRUE,
                            !.res = information_gain(call.a1, call.a2, call.m)]
    /\ UNCHANGED aggVars

\* gain_ratio(y_parent, y_children, impurity_metric)
GainRatio ==
    /\ call.fn = "gain_ratio" /\ ~call.done
    /\ call' = [call EXCEPT !.done = TRUE, !.res = gain_ratio(call.a1, call.a2, call.m)]
    /\ UNCHANGED aggVars

\* ---------------------------------------------------------- specifications
\* one MetricList, built from names, functions and same-named metrics
NextList ==
    \/ \E ids \in ListIdentifierLists : Construct(1, ids)
    \/ \E input \in ListInputs : BeginEvaluate(1, input)
    \/ Attempt(1)

SpecList == Init /\ [][NextList]_vars

\* two MetricLists used side by side, their calls interleaved metric by metric
NextPair ==
    \/ \E a \in Instances, ids \in PairIdentifierLists : Construct(a, ids)
    \/ \E a \in Instances, input \in PairInputs : BeginEvaluate(a, input)
    \/ \E a \in Instances : Attempt(a)

SpecPair == Init /\ [][NextPair]_vars

\* get_metric on every kind of identifier
InitResolve ==
    /\ InitLists
    /\ \E ident \in Identifiers : call = Pending("get_metric", ident, <<>>, <<>>)

SpecResolve == InitResolve /\ [][Resolve]_vars

\* every pointwise metric on every pair of arguments
InitScore ==
    /\ InitLists
    /\ \E m \in PointwiseMetrics, y_true \in Arguments, y_pred \in Arguments :
          call = Pending("metric", m, y_true, y_pred)

SpecScore == InitScore /\ [][Score]_vars

\* the impurity metrics and the split-quality functions on label vectors
InitSplit ==
    /\ InitLists
    /\ \/ \E m \in ImpurityMetrics, y \in LabelVectors :
             call = Pending("impurity", m, y, <<>>)
       \/ \E m \in ImpurityMetrics, y \in LabelVectors, cs \in ChildLists,
             fn \in {"information_gain", "gain_ratio"} :
             call = Pending(fn, m, y, cs)

NextSplit == Measure \/ InformationGain \/ GainRatio

SpecSplit == InitSplit /\ [][NextSplit]_vars

\* ------------------------------------------------------------------ claims
Finished(a) == built[a] /\ pc[a] = 0 /\ Len(calls[a]) > 0

\* C1: evaluate never raises, attempts every metric in list order whatever
\* failed before, and a metric that succeeds on the inputs has its score in the
\* returned mapping under its name.
C1_Isolation ==
    \A a \in Instances : Finished(a) =>
        /\ Len(returned[a]) = Len(calls[a])
        /\ attempted[a] = [i \in 1..Len(metrics[a]) |-> i]
        /\ \A i \in DOMAIN metrics[a] :
              LET r == CallMetric(metrics[a][i], cur[a][1], cur[a][2])
              IN  ~IsRaise(r) => results[a][metrics[a][i].name] = r.val

\* C2: when the returned mapping holds None under a name, the history of that
\* name is what it was before the call.
C2_FailureLeavesHistory ==
    \A a \in Instances : Finished(a) =>
        \A n \in DOMAIN results[a] :
            results[a][n] = NoneVal => history[a][n] = before[a][n]

AllSucceeded(a) ==
    \A j \in DOMAIN calls[a], i \in DOMAIN metrics[a] :
        ~IsRaise(CallMetric(metrics[a][i], calls[a][j][1], calls[a][j][2]))

\* C3: after n calls in which every metric succeeded each history holds exactly
\* n entries, the i-th being the score the i-th call returned under the name.
C3_HistoryAccumulation ==
    \A a \in Instances : (built[a] /\ pc[a] = 0 /\ AllSucceeded(a)) =>
        \A n \in DOMAIN history[a] :
            /\ Len(history[a][n]) = Len(calls[a])
            /\ \A i \in DOMAIN calls[a] : history[a][n][i] = returned[a][i][n]

\* the history of a MetricList that ran the turns 1..upto of one call by itself
AloneTurn(h, name, r) == IF IsRaise(r) THEN h ELSE [h EXCEPT ![name] = Append(@, r.val)]

RECURSIVE AloneTurns(_, _, _, _, _)
AloneTurns(h, ms, input, i, upto) ==
    IF i > upto THEN h
    ELSE AloneTurns(AloneTurn(h, ms[i].name, CallMetric(ms[i], input[1], input[2])),
                    ms, input, i + 1, upto)

\* ... and the calls j..Len(cs) one after the other, the last up to its turn `last`
RECURSIVE AloneCalls(_, _, _, _, _)
AloneCalls(h, ms, cs, j, last) ==
    IF j > Len(cs) THEN h
    ELSE AloneCalls(AloneTurns(h, ms, cs[j], 1, IF j = Len(cs) THEN last ELSE Len(ms)),
                    ms, cs, j + 1, last)

AloneHistory(a) ==
    AloneCalls([n \in Names(metrics[a]) |-> <<>>], metrics[a], calls[a], 1,
               IF pc[a] = 0 THEN Len(metrics[a]) ELSE pc[a] - 1)

\* C4: whatever the other instance did in between, the histories of a
\* MetricList are those its own calls produce when they run alone.
C4_NoSharedState == \A a \in Instances : built[a] => history[a] = AloneHistory(a)

\* both instances hold the shared Metric object and are in the middle of a call
\* on different inputs, each with a score recorded already
C4_Witness ==
    /\ \A a \in Instances : built[a] /\ pc[a] > 1 /\ SharedMetric = metrics[a][1]
    /\ cur[1] # cur[2]
    /\ history[1] # history[2]

\* the error kinds get_metric fails with
UnknownMetricError == get_metric(PyStr("unknown_metric")).exc.cls

\* C5: get_metric returns a Metric object as it is, a recognized name's metric,
\* a non-Metric invocable wrapped under the function's own name; it fails with
\* UnknownMetricError on another string and with a different kind of error on
\* any other type.
C5_Resolution ==
    (call.fn = "get_metric" /\ call.done) =>
        LET ident == call.m
            r == call.res
        IN  /\ ident.type = "Metric" => r = Resolved(ident)
            /\ (ident.type = "str" /\ ident.name \in {"accuracy", "mse", "mae", "r2"}) =>
                  /\ r.exc = NoExc
                  /\ r.val.name = ident.name
                  /\ r.val = metrics_map(ident.name)
            /\ (ident.type = "str" /\ ident.name \notin {"accuracy", "mse", "mae", "r2"}) =>
                  r.exc.cls = UnknownMetricError
            /\ (ident.type \in {"function", "partial"}) =>
                  /\ r.exc = NoExc
                  /\ r.val.cls = "MetricWrapper"
                  /\ ident.type = "function" => r.val.name = ident.name
            /\ ident.type \notin {"Metric", "str", "function", "partial"} =>
                  /\ r.exc # NoExc
                  /\ r.exc.cls # UnknownMetricError

\* the error kinds validation fails with
ShapeMismatchError == _validate_inputs(NdArray(<<One>>), NdArray(<<>>)).cls
EmptyInputError == _validate_inputs(NdArray(<<>>), NdArray(<<>>)).cls

\* C6: every pointwise metric validates first; validation fails with a type
\* error on a non-array, else with the shape error on unequal shapes, else with
\* the empty-input error on length 0, the last two being different kinds of
\* error; a wrapped function never runs on inputs that fail validation.
C6_Validation ==
    (call.fn = "metric" /\ call.done) =>
        LET y_true == call.a1
            y_pred == call.a2
            r == call.res
            arrays == IsNdArray(y_true) /\ IsNdArray(y_pred)
            sameShape == arrays /\ Shape(y_true) = Shape(y_pred)
            valid == sameShape /\ Len(y_true.data) > 0
        IN  /\ r.trace # <<>> /\ r.trace[1] = "validate"
            /\ ~arrays => r.exc.cls = "TypeError"
            /\ (arrays /\ ~sameShape) => r.exc.cls = ShapeMismatchError
            /\ (sameShape /\ ~valid) =>
                  /\ r.exc.cls = EmptyInputError
                  /\ r.exc.cls # ShapeMismatchError
            /\ ~valid => r.trace = <<"validate">>

Distinct(y) == {y[i] : i \in DOMAIN y}

\* C7: an impurity is >= 0, it is 0 exactly for an empty or a single-class
\* vector, and the proportions of a non-empty vector lie in (0,1] and sum to 1.
C7_ImpurityZero ==
    (call.fn = "impurity" /\ call.done) =>
        LET y == call.a1
            v == call.res.val
            p == compute_proportions(y)
        IN  /\ ~FLt(v, Zero) /\ ~IsNaN(v)
            /\ FEq(v, Zero) <=> Cardinality(Distinct(y)) <= 1
            /\ Len(y) > 0 =>
                  /\ \A i \in DOMAIN p : FLt(Zero, p[i]) /\ ~FLt(One, p[i])
                  /\ FEq(NpSum(p), One)

\* the sum over the children c of (len(c) / len(parent)) * impurity(c)
RECURSIVE ChildTerms(_, _, _, _)
ChildTerms(y_parent, cs, m, i) ==
    IF i = 0 THEN Zero
    ELSE FAdd(ChildTerms(y_parent, cs, m, i - 1),
              FMul(FDiv(FromInt(Len(cs[i])), FromInt(Len(y_parent))),
                   Impurity(m, cs[i])))

\* the children hold the labels of the parent, each as often as the parent does
Partitions(y_parent, cs) ==
    \A l \in Labels :
        Count(y_parent, l) = TotalLen([i \in DOMAIN cs |->
            [k \in 1..Count(cs[i], l) |-> l]])

\* C8: for a non-empty parent information_gain is the parent's impurity minus
\* the weighted child impurities; it is 0 for the single child equal to the
\* parent, and the parent's impurity for a partition into single-class children.
C8_InformationGain ==
    (call.fn = "information_gain" /\ call.done /\ Len(call.a1) > 0) =>
        LET y == call.a1
            cs == call.a2
            r == call.res
        IN  /\ r.exc = NoExc
            /\ r.val = FSub(Impurity(call.m, y), ChildTerms(y, cs, call.m, Len(cs)))
            /\ cs = <<y>> => r.val = Zero
            /\ (Partitions(y, cs) /\ \A i \in DOMAIN cs : Cardinality(Distinct(cs[i])) = 1)
                  => r.val = Impurity(call.m, y)

\* a mixed parent split into its two classes: the gain is the whole impurity
C8_Witness ==
    /\ call.fn = "information_gain" /\ call.done
    /\ call.a1 = <<0, 1>> /\ call.a2 = << <<0>>, <<1>> >>
    /\ call.res.val = Impurity(call.m, call.a1)
    /\ call.res.val # Zero

\* -sum over the children c of (len(c) / len(parent)) * log2(len(c) / len(parent))
RECURSIVE SplitTerms(_, _, _)
SplitTerms(y_parent, cs, i) ==
    IF i = 0 THEN Zero
    ELSE LET w == FDiv(FromInt(Len(cs[i])), FromInt(Len(y_parent)))
         IN  FAdd(SplitTerms(y_parent, cs, i - 1), FMul(w, FLog2(w)))

\* C9: for a non-empty parent gain_ratio is information_gain / split_info when
\* split_info is not 0 and 0.0 when it is; no call divides by zero or yields an
\* undefined value.
C9_GainRatio ==
    (call.fn = "gain_ratio" /\ call.done /\ Len(call.a1) > 0) =>
        LET y == call.a1
            cs == call.a2
            r == call.res
            ig == information_gain(y, cs, call.m).val
            split_info == FNeg(SplitTerms(y, cs, Len(cs)))
        IN  /\ r.exc = NoExc
            /\ IsFin(r.val)
            /\ cs = <<y>> => r.val = Zero
            /\ FEq(split_info, Zero) => r.val = Zero
            /\ (IsFin(split_info) /\ ~FEq(split_info, Zero)) => r.val = FDiv(ig, split_info)

\* SS_res and SS_tot of the definition of R2
SSRes(y_true, y_pred) == NpSum(Squares(Diffs(y_true, y_pred)))
SSTot(y_true) ==
    NpSum(Squares([i \in DOMAIN y_true.data |-> FSub(y_true.data[i], NpMean(y_true.data))]))

\* C10: R2Score returns exactly 0.0 when all values of a non-empty y_true are
\* identical, whatever y_pred of the same shape, and 1 - SS_res/SS_tot otherwise.
C10_R2ZeroVariance ==
    (call.fn = "metric" /\ call.done /\ call.m = R2Score
        /\ _validate_inputs(call.a1, call.a2) = NoExc) =>
        LET y_true == call.a1.data
            r == call.res
        IN  /\ r.exc = NoExc
            /\ (\A i \in DOMAIN y_true : y_true[i] = y_true[1]) => r.val = Zero
            /\ (\E i \in DOMAIN y_true : y_true[i] # y_true[1]) =>
                  r.val = FSub(One, FDiv(SSRes(call.a1, call.a2), SSTot(call.a1)))
====
